---------------------------- MODULE Spec2Model ----------------------------
(***************************************************************************)
(* Model of the HWPX evidence-document generator of BCSD_VICE_PRESIDENT:   *)
(*   - the layout engine  _layout          (src/hwp/image_packer.py)       *)
(*   - the container packer  run  and its helpers                          *)
(*                                    (src/ledger/hwp/hwp_generator_xml.py)*)
(*                                                                         *)
(* Python floats are binary floating-point numbers.  They are modelled as  *)
(* binary floating-point numbers with a mantissa of Precision bits,        *)
(* round-to-nearest, ties-to-even, and an unbounded exponent: every        *)
(* operation returns the representable number nearest to the exact result, *)
(* as IEEE-754 does with 53 bits.                                          *)
(***************************************************************************)
EXTENDS Integers, Sequences, FiniteSets, TLC

\* ------------------------------------------------------------------------
\* Bounds of the model
\* ------------------------------------------------------------------------

\* Mantissa bits of the modelled floating-point numbers.
Precision == 7

\* Longest image list handed to _layout in the layout specification.
MaxLayoutImgs == 6

\* ------------------------------------------------------------------------
\* Floating point: [m |-> mantissa, e |-> exponent] stands for m * 2^e.
\* A number is zero (m = 0, e = 0) or normalized:
\*   2^(Precision-1) <= |m| < 2^Precision.
\* ------------------------------------------------------------------------

RECURSIVE Pow2(_)
Pow2(k) == IF k <= 0 THEN 1 ELSE 2 * Pow2(k - 1)

RECURSIVE BitLen(_)
BitLen(n) == IF n <= 0 THEN 0 ELSE 1 + BitLen(n \div 2)

FlZero == [m |-> 0, e |-> 0]

\* The float nearest to n * 2^e for an integer n >= 0 (ties to even).
FlRound(n, e) ==
    IF n = 0 THEN FlZero
    ELSE LET b == BitLen(n) IN
         IF b <= Precision
         THEN [m |-> n * Pow2(Precision - b), e |-> e - (Precision - b)]
         ELSE LET shift == b - Precision
                  q     == n \div Pow2(shift)
                  r     == n % Pow2(shift)
                  half  == Pow2(shift - 1)
                  up    == (r > half) \/ (r = half /\ q % 2 = 1)
                  m1    == IF up THEN q + 1 ELSE q
              IN IF m1 = Pow2(Precision)
                 THEN [m |-> Pow2(Precision - 1), e |-> e + shift + 1]
                 ELSE [m |-> m1, e |-> e + shift]

\* float(k) for an int k >= 0, and the literal -1.
FlFromInt(k) == FlRound(k, 0)
FlMinusOne == [m |-> 0 - Pow2(Precision - 1), e |-> 0 - (Precision - 1)]

\* a * b for a, b >= 0.
FlMul(a, b) == FlRound(a.m * b.m, a.e + b.e)

\* a / b for a >= 0, b > 0: the quotient to Precision + 2 bits and a sticky
\* bit for the remainder, rounded once.
FlDiv(a, b) ==
    IF a.m = 0 THEN FlZero
    ELSE LET num == a.m * Pow2(Precision + 2)
             q   == num \div b.m
             r   == num % b.m
             st  == IF r = 0 THEN 0 ELSE 1
         IN FlRound(2 * q + st, a.e - b.e - (Precision + 2) - 1)

\* a + b for a, b >= 0.
FlAdd(a, b) ==
    IF a.m = 0 THEN b
    ELSE IF b.m = 0 THEN a
    ELSE LET hi == IF a.e >= b.e THEN a ELSE b
             lo == IF a.e >= b.e THEN b ELSE a
             d  == hi.e - lo.e
         IN IF d > Precision + 2 THEN hi
            ELSE FlRound(hi.m * Pow2(d) + lo.m, lo.e)

\* a < b.
FlLt(a, b) ==
    IF a.m < 0 \/ b.m < 0
    THEN IF a.m < 0 /\ b.m < 0
         THEN \/ a.e > b.e
              \/ (a.e = b.e /\ a.m < b.m)
         ELSE a.m < 0
    ELSE IF a.m = 0 THEN b.m > 0
    ELSE IF b.m = 0 THEN FALSE
    ELSE \/ a.e < b.e
         \/ (a.e = b.e /\ a.m < b.m)

FlLe(a, b) == ~FlLt(b, a)

\* Python's min(a, b): the first argument unless the second is smaller.
FlMin(a, b) == IF FlLt(b, a) THEN b ELSE a

\* Python's round(x) for x >= 0: the nearest int, ties to even.
FlToInt(a) ==
    IF a.m = 0 THEN 0
    ELSE IF a.e >= 0 THEN a.m * Pow2(a.e)
    ELSE LET shift == 0 - a.e IN
         IF shift > Precision + 1 THEN 0
         ELSE LET q    == a.m \div Pow2(shift)
                  r    == a.m % Pow2(shift)
                  half == Pow2(shift - 1)
              IN IF (r > half) \/ (r = half /\ q % 2 = 1) THEN q + 1 ELSE q

\* sorted(seq) of floats, ascending (insertion sort, stable).
RECURSIVE FlInsert(_, _)
FlInsert(x, s) ==
    IF s = <<>> THEN <<x>>
    ELSE IF FlLt(x, Head(s)) THEN <<x>> \o s
    ELSE <<Head(s)>> \o FlInsert(x, Tail(s))

RECURSIVE FlSorted(_)
FlSorted(s) ==
    IF s = <<>> THEN <<>>
    ELSE FlInsert(s[Len(s)], FlSorted(SubSeq(s, 1, Len(s) - 1)))

\* sum(seq) of floats, left to right.
RECURSIVE FlSum(_)
FlSum(s) ==
    IF s = <<>> THEN FlZero
    ELSE FlAdd(FlSum(SubSeq(s, 1, Len(s) - 1)), s[Len(s)])


\* ------------------------------------------------------------------------
\* Layout engine (src/hwp/image_packer.py)
\* An image is [w |-> pixel width, h |-> pixel height], both ints > 0.
\* ------------------------------------------------------------------------

\* `return None`
None == [none |-> TRUE]

\* LayoutResult(): area = -1, items = [], grid = None (here the empty tuple).
LayoutResult == [area |-> FlMinusOne, items |-> <<>>, grid |-> <<>>]

\* The exclusive upper limit of the column loop: range(1, min(n + 1, 6)).
ColumnStop(n) == IF n + 1 < 6 THEN n + 1 ELSE 6

\* ceil(n / cols) for list lengths.
Rows(n, cols) == (n + cols - 1) \div cols

CellW(cw, cols) == FlDiv(cw, FlFromInt(cols))
CellH(ch, rows) == FlDiv(ch, FlFromInt(rows))

\* min(cell_w / img.w, cell_h / img.h)
MaxScale(img, cell_w, cell_h) ==
    FlMin(FlDiv(cell_w, FlFromInt(img.w)), FlDiv(cell_h, FlFromInt(img.h)))

\* Mutation of MedianScale: the smallest of the scales, sorted(scales)[0].
SmallestScale(imgs, cell_w, cell_h) ==
    LET scales == [i \in 1..Len(imgs) |-> MaxScale(imgs[i], cell_w, cell_h)]
    IN FlSorted(scales)[1]

\* scales = [...]; median_scale = sorted(scales)[n // 2]
MedianScale(imgs, cell_w, cell_h) ==
    LET scales == [i \in 1..Len(imgs) |-> MaxScale(imgs[i], cell_w, cell_h)]
    IN FlSorted(scales)[(Len(imgs) \div 2) + 1]

\* scale = min(median_scale, cell_w / img.w, cell_h / img.h)
ItemScale(img, cell_w, cell_h, median_scale) ==
    FlMin(FlMin(median_scale, FlDiv(cell_w, FlFromInt(img.w))),
          FlDiv(cell_h, FlFromInt(img.h)))

\* Mutation of LayoutItem: the index counted from 1.
LayoutItemFromOne(i, img, scale) ==
    [idx |-> i,
     w   |-> FlMul(FlFromInt(img.w), scale),
     h   |-> FlMul(FlFromInt(img.h), scale)]

\* LayoutItem(i, img.path, (w, h)); idx counts from 0 as in the source.
LayoutItem(i, img, scale) ==
    [idx |-> i - 1,
     w   |-> FlMul(FlFromInt(img.w), scale),
     h   |-> FlMul(FlFromInt(img.h), scale)]

\* The items of one pass of the column loop.
LayoutItems(imgs, cell_w, cell_h) ==
    LET median_scale == MedianScale(imgs, cell_w, cell_h)
    IN [i \in 1..Len(imgs) |->
           LayoutItem(i, imgs[i],
                      ItemScale(imgs[i], cell_w, cell_h, median_scale))]

\* area = sum(item.size[0] * item.size[1] for item in items)
TotalArea(items) == FlSum([i \in 1..Len(items) |-> FlMul(items[i].w, items[i].h)])

\* One pass of the loop body for a column count: the candidate it builds.
Candidate(imgs, cw, ch, cols) ==
    LET rows  == Rows(Len(imgs), cols)
        items == LayoutItems(imgs, CellW(cw, cols), CellH(ch, rows))
    IN [area |-> TotalArea(items), items |-> items, grid |-> <<rows, cols>>]

\* Mutation of Better: `>=` for `>`, so that a tie keeps the later candidate.
BetterOrEqual(cand, best, n) == Len(cand.items) = n /\ FlLe(best.area, cand.area)

\* if len(items) == n and area > best.area
Better(cand, best, n) == Len(cand.items) = n /\ FlLt(best.area, cand.area)

RECURSIVE LayoutLoop(_, _, _, _, _)
LayoutLoop(imgs, cw, ch, cols, best) ==
    IF cols >= ColumnStop(Len(imgs)) THEN best
    ELSE LET cand == Candidate(imgs, cw, ch, cols)
         IN LayoutLoop(imgs, cw, ch, cols + 1,
                       IF Better(cand, best, Len(imgs)) THEN cand ELSE best)

\* _layout(imgs, cw, ch)
_layout(imgs, cw, ch) ==
    IF Len(imgs) = 0 THEN None
    ELSE LET best == LayoutLoop(imgs, cw, ch, 1, LayoutResult)
         IN IF Len(best.items) = Len(imgs) THEN best ELSE None

\* ------------------------------------------------------------------------
\* HWPX generator (src/ledger/hwp/hwp_generator_xml.py): data and helpers
\*
\* An archive entry name is a tuple of strings: <<"BinData/image", t, ext>>
\* stands for 'BinData/image' + t + '.' + ext, any other name is <<name>>.
\* A top-level child of the body is
\*   [tag, eid, runs]   tag "p" (hp:p) or "other"; eid is the element's
\*                      identity; runs are its hp:run children in order,
\* a run is the sequence of its children, and a child is
\*   [tag |-> "t"], [tag |-> "pic", zOrder |-> z, ...] or a table
\*   [tag |-> "tbl", rowCnt, colCnt, zOrder, id, borderFill, trs],
\* whose trs are its hp:tr rows [sz, paras]: sz the first cell's
\* cellSz <<width, height>> (<<>> when absent) and paras the cell's
\* paragraphs [id, text, pics].
\* ------------------------------------------------------------------------

\* HWP_PER_MM = 7200 / 25.4
HWP_PER_MM == FlDiv(FlFromInt(7200), FlDiv(FlFromInt(254), FlFromInt(10)))

\* _TemplateParams(): the built-in defaults.
DefaultParams ==
    [cell_w |-> 51877, title_row_h |-> 4117, img_cell_h |-> 25332,
     border_fill_id |-> "3"]

\* _TemplateParams.img_w_mm, img_h_mm
img_w_mm(params) == FlDiv(FlFromInt(params.cell_w), HWP_PER_MM)
img_h_mm(params) == FlDiv(FlFromInt(params.img_cell_h), HWP_PER_MM)

\* itertools.count(100_000_000)
IdBase == 100000000

\* Mutation of _reset_id_counter: the counter is left as it is.
KeepIdCounter(counter) == counter

\* _reset_id_counter(): the module-level counter starts again.
_reset_id_counter(counter) == IdBase

SEC_KEY == <<"Contents/section0.xml">>
HPF_KEY == <<"Contents/content.hpf">>

\* f'BinData/{bid}.{ext}' with bid = f'image{n}'
BinKey(n, ext) == <<"BinData/image", ToString(n), ext>>

\* Sequence helpers for Python's dict (insertion ordered) and list.
HasKey(d, key) == \E i \in 1..Len(d) : d[i].key = key

DictGet(d, key) == d[CHOOSE i \in 1..Len(d) : d[i].key = key].val

\* d[key] = val: an existing key keeps its place, a new key goes last.
DictSet(d, key, val) ==
    IF HasKey(d, key)
    THEN [i \in 1..Len(d) |-> IF d[i].key = key THEN [key |-> key, val |-> val] ELSE d[i]]
    ELSE Append(d, [key |-> key, val |-> val])

\* Mutation of list.insert: the element goes to the front.
InsertAtFront(s, idx, x) == <<x>> \o s

\* Mutation of list.insert: the element goes one place earlier.
InsertOneEarlier(s, idx, x) ==
    IF idx = 0 THEN <<x>> \o s
    ELSE SubSeq(s, 1, idx - 1) \o <<x>> \o SubSeq(s, idx, Len(s))

\* list.insert(idx, x) with a 0-based idx <= len.
InsertAt(s, idx, x) == SubSeq(s, 1, idx) \o <<x>> \o SubSeq(s, idx + 1, Len(s))

Maximum(S) == CHOOSE x \in S : \A y \in S : y <= x

\* int(text): decimal numerals, leading zeros allowed; any other text raises
\* ValueError.  The numbers are those below 100 and the sizes of the default
\* profile, which run writes into its tables.
DecimalRange == 0..99
NumeralsOf(n) == { ToString(n), "0" \o ToString(n) }
IntRange ==
    DecimalRange \cup { DefaultParams.cell_w, DefaultParams.title_row_h,
                        DefaultParams.img_cell_h }
IsInt(text) == \E n \in IntRange : text \in NumeralsOf(n)
IntOf(text) == CHOOSE n \in IntRange : text \in NumeralsOf(n)

\* name.startswith('BinData/image')
StartsWithBinDataImage(name) == name[1] = "BinData/image"

\* Mutation of _max_binary_idx: the number of entries instead of the
\* largest number.
RECURSIVE CountBinaryIdx(_, _, _)
CountBinaryIdx(zf, i, idx) ==
    IF i > Len(zf) THEN idx
    ELSE CountBinaryIdx(zf, i + 1,
             IF StartsWithBinDataImage(zf[i].key) /\ IsInt(zf[i].key[2])
             THEN idx + 1 ELSE idx)

\* _max_binary_idx(zip_files), from entry i on with the running maximum idx.
RECURSIVE _max_binary_idx(_, _, _)
_max_binary_idx(zf, i, idx) ==
    IF i > Len(zf) THEN idx
    ELSE _max_binary_idx(zf, i + 1,
             IF StartsWithBinDataImage(zf[i].key) /\ IsInt(zf[i].key[2])
             THEN (IF IntOf(zf[i].key[2]) > idx THEN IntOf(zf[i].key[2]) ELSE idx)
             ELSE idx)

\* The attribute is absent.
NoAttr == -1

\* The zOrder attributes of an element and its descendants (root.iter()).
ZOrdersOfTbl(tbl) ==
    (IF tbl.zOrder # NoAttr THEN {tbl.zOrder} ELSE {})
    \cup UNION { UNION { { tbl.trs[r].paras[q].pics[k].zOrder :
                             k \in 1..Len(tbl.trs[r].paras[q].pics) } :
                         q \in 1..Len(tbl.trs[r].paras) } :
                 r \in 1..Len(tbl.trs) }

ZOrdersOfChild(child) ==
    IF child.tag = "tbl" THEN ZOrdersOfTbl(child)
    ELSE IF child.tag = "pic" THEN {child.zOrder}
    ELSE {}

ZOrdersOfNode(node) ==
    UNION { UNION { ZOrdersOfChild(node.runs[r][k]) : k \in 1..Len(node.runs[r]) } :
            r \in 1..Len(node.runs) }

\* Mutation of _max_z_order: the counter starts from nothing.
NoZOrder(root) == 0

\* _max_z_order(root)
_max_z_order(root) ==
    LET zs == UNION { ZOrdersOfNode(root[i]) : i \in 1..Len(root) }
    IN IF zs = {} THEN 0 ELSE Maximum(zs)

\* tbl.tag == hp:tbl and rowCnt == '2' and colCnt == '1'
IsExpenseTbl(child) ==
    child.tag = "tbl" /\ child.rowCnt = "2" /\ child.colCnt = "1"

\* The inner loops of _find_expense_ps for one hp:p: one append per run that
\* holds a matching table (`break` leaves only the loop over that run).
RECURSIVE AppendsOfP(_, _)
AppendsOfP(p, r) ==
    IF r > Len(p.runs) THEN <<>>
    ELSE (IF \E k \in 1..Len(p.runs[r]) : IsExpenseTbl(p.runs[r][k])
          THEN <<p>> ELSE <<>>)
         \o AppendsOfP(p, r + 1)

\* _find_expense_ps(root), from child i on.
RECURSIVE _find_expense_ps(_, _)
_find_expense_ps(root, i) ==
    IF i > Len(root) THEN <<>>
    ELSE (IF root[i].tag = "p" THEN AppendsOfP(root[i], 1) ELSE <<>>)
         \o _find_expense_ps(root, i + 1)

\* list(root).index(p): elements compare by identity; 0-based.
IndexOf(root, p) == (CHOOSE i \in 1..Len(root) : root[i].eid = p.eid) - 1

IsChild(root, p) == \E i \in 1..Len(root) : root[i].eid = p.eid

\* Mutation of Remove: the sibling after p goes with it.
RemoveWithNext(root, p) == SelectSeq(root, LAMBDA c : c.eid # p.eid /\ c.eid # p.eid + 1)

\* root.remove(p) for a child p.
Remove(root, p) == SelectSeq(root, LAMBDA c : c.eid # p.eid)

\* for p in expense_ps: root.remove(p) -- lxml raises ValueError for an
\* element that is not (or no longer) a child.
RECURSIVE RemoveAll(_, _, _)
RemoveAll(root, ps, i) ==
    IF i > Len(ps) THEN [raised |-> FALSE, root |-> root]
    ELSE IF ~IsChild(root, ps[i]) THEN [raised |-> TRUE, root |-> root]
    ELSE RemoveAll(Remove(root, ps[i]), ps, i + 1)

\* An attribute is <<text>>, or <<>> when the element does not carry it.
Attr(text) == <<text>>

\* The exception of int(text) for a text that is no numeral.
ValueError == [raised |-> TRUE]

\* int(elem.get(name, default)) does not raise.
Parses(attr) == attr = <<>> \/ IsInt(attr[1])

\* int(elem.get(name, default))
AttrInt(attr, default) == IF attr = <<>> THEN default ELSE IntOf(attr[1])

\* _from_tc for one row: the cellSz of the row's first cell, <<>> when the
\* row has no cell or the cell no cellSz, else <<width, height>>.
FromTc(params, tr, is_title) ==
    IF tr.sz = <<>> THEN params
    ELSE IF ~Parses(tr.sz[1]) \/ ~Parses(tr.sz[2]) THEN ValueError
    ELSE IF is_title
    THEN [params EXCEPT !.cell_w = AttrInt(tr.sz[1], @),
                        !.title_row_h = AttrInt(tr.sz[2], @)]
    ELSE [params EXCEPT !.cell_w = AttrInt(tr.sz[1], @),
                        !.img_cell_h = AttrInt(tr.sz[2], @)]

\* The two calls of _from_tc, the second only when the first returned.
FromRows(params, trs) ==
    IF FromTc(params, trs[1], TRUE) = ValueError THEN ValueError
    ELSE FromTc(FromTc(params, trs[1], TRUE), trs[2], FALSE)

\* Mutation of _read_template_params: the profile of the last block.
ReadLastBlock(expense_ps) ==
    IF expense_ps = <<>> THEN DefaultParams
    ELSE LET wrap_p == expense_ps[Len(expense_ps)]
             wrap_run == wrap_p.runs[1]
             found == { k \in 1..Len(wrap_run) :
                          wrap_run[k].tag = "tbl" /\ wrap_run[k].colCnt = "1" }
         IN IF found = {} THEN DefaultParams
            ELSE LET tbl == wrap_run[CHOOSE k \in found : \A k2 \in found : k <= k2]
                     p1  == [DefaultParams EXCEPT !.border_fill_id =
                                IF tbl.borderFill = "" THEN @ ELSE tbl.borderFill]
                 IN IF Len(tbl.trs) < 2 THEN p1
                    ELSE FromRows(p1, tbl.trs)

\* _read_template_params(expense_ps): the profile, or ValueError.
_read_template_params(expense_ps) ==
    IF expense_ps = <<>> THEN DefaultParams
    ELSE LET wrap_p == expense_ps[1]
             wrap_run == wrap_p.runs[1]
             found == { k \in 1..Len(wrap_run) :
                          wrap_run[k].tag = "tbl" /\ wrap_run[k].colCnt = "1" }
         IN IF found = {} THEN DefaultParams
            ELSE LET tbl == wrap_run[CHOOSE k \in found : \A k2 \in found : k <= k2]
                     p1  == [DefaultParams EXCEPT !.border_fill_id =
                                IF tbl.borderFill = "" THEN @ ELSE tbl.borderFill]
                 IN IF Len(tbl.trs) < 2 THEN p1
                    ELSE FromRows(p1, tbl.trs)

\* ------------------------------------------------------------------------
\* One record of the ledger: [idx, kind, raw].  raw is the img_paths cell,
\* [type, items]: a list, None, one str, another iterable, or a value that
\* is not iterable.  A path is [load, w, h, read, ext, src]: whether Img(p)
\* succeeds (else one of the caught exceptions), the pixel size, whether
\* open(p, 'rb').read() succeeds (else OSError), the file extension and
\* the file's content.
\* ------------------------------------------------------------------------

\* title = f'{data_idx + 1}. {row["kind"]}'
Title(row) == <<row.idx + 1, row.kind>>

\* The isinstance chain over row.get('img_paths', []).
ImgPaths(raw) ==
    IF raw.type = "list" THEN raw.items
    ELSE IF raw.type = "none" THEN <<>>
    ELSE IF raw.type = "str" THEN <<raw.items[1]>>
    ELSE IF raw.type = "iter" THEN raw.items
    ELSE <<>>

\* for p in img_paths: try: imgs.append(Img(p)) except (...): skip
LoadImgs(img_paths) == SelectSeq(img_paths, LAMBDA p : p.load)

\* os.path.splitext(img.path)[1].lstrip('.').lower() or 'png'
Lower(ext) ==
    IF ext = "JPG" THEN "jpg" ELSE IF ext = "PNG" THEN "png" ELSE ext

ExtOf(img) == IF Lower(img.ext) = "" THEN "png" ELSE Lower(img.ext)

\* round(item.size[k] * HWP_PER_MM)
DispSize(mm) == FlToInt(FlMul(mm, HWP_PER_MM))

\* Mutation of EmbedItem: an image whose bytes cannot be read is placed all
\* the same.
EmbedItemUnread(layout, imgs, i, st) ==
    LET item == layout.items[i]
        img  == imgs[item.idx + 1]
        bid  == st.bin_counter
    IN IF img.read
       THEN [bin_counter  |-> st.bin_counter + 1,
             new_binaries |-> DictSet(st.new_binaries, BinKey(bid, ExtOf(img)),
                                      [bytes |-> img.src]),
             placed       |-> Append(st.placed,
                                  <<[bid |-> bid, disp_w |-> DispSize(item.w),
                                     disp_h |-> DispSize(item.h)]>>)]
       ELSE [st EXCEPT !.placed = Append(@, <<[bid |-> bid, disp_w |-> DispSize(item.w),
                                              disp_h |-> DispSize(item.h)]>>)]

\* Mutation of EmbedItem: the asset counter is not taken back when reading
\* the image fails.
EmbedItemNoRollback(layout, imgs, i, st) ==
    LET item == layout.items[i]
        img  == imgs[item.idx + 1]
        bid  == st.bin_counter
    IN IF img.read
       THEN [bin_counter  |-> st.bin_counter + 1,
             new_binaries |-> DictSet(st.new_binaries, BinKey(bid, ExtOf(img)),
                                      [bytes |-> img.src]),
             placed       |-> Append(st.placed,
                                  <<[bid |-> bid, disp_w |-> DispSize(item.w),
                                     disp_h |-> DispSize(item.h)]>>)]
       ELSE [st EXCEPT !.bin_counter = @ + 1, !.placed = Append(@, <<>>)]

\* The body of the nested r_idx / c_idx loops for layout item i (1-based),
\* on st = [bin_counter, new_binaries, placed]: placed[i] is the tuple put
\* into row_items, or <<>> when reading the image failed (`continue` after
\* the counter is taken back).
EmbedItem(layout, imgs, i, st) ==
    LET item == layout.items[i]
        img  == imgs[item.idx + 1]
        bid  == st.bin_counter
    IN IF img.read
       THEN [bin_counter  |-> st.bin_counter + 1,
             new_binaries |-> DictSet(st.new_binaries, BinKey(bid, ExtOf(img)),
                                      [bytes |-> img.src]),
             placed       |-> Append(st.placed,
                                  <<[bid |-> bid, disp_w |-> DispSize(item.w),
                                     disp_h |-> DispSize(item.h)]>>)]
       ELSE [st EXCEPT !.placed = Append(@, <<>>)]

RECURSIVE EmbedFrom(_, _, _, _)
EmbedFrom(layout, imgs, i, st) ==
    IF i > Len(layout.items) THEN st
    ELSE EmbedFrom(layout, imgs, i + 1, EmbedItem(layout, imgs, i, st))

\* row_items of grid row r_idx (0-based): the placed items i with
\* r_idx * cols_n <= i < (r_idx + 1) * cols_n, in order.
RECURSIVE RowItems(_, _, _)
RowItems(placed, i, last) ==
    IF i > last \/ i > Len(placed) THEN <<>>
    ELSE placed[i] \o RowItems(placed, i + 1, last)

\* if row_items: img_rows.append(row_items), for r_idx in range(rows_n)
RECURSIVE ImgRows(_, _, _, _)
ImgRows(placed, r_idx, rows_n, cols_n) ==
    IF r_idx >= rows_n THEN <<>>
    ELSE LET row_items == RowItems(placed, r_idx * cols_n + 1, (r_idx + 1) * cols_n)
         IN (IF row_items # <<>> THEN <<row_items>> ELSE <<>>)
            \o ImgRows(placed, r_idx + 1, rows_n, cols_n)

\* The state after the loops, with img_rows in place of the placed items.
ImgRowsOf(st, rows_n, cols_n) ==
    [bin_counter |-> st.bin_counter, new_binaries |-> st.new_binaries,
     img_rows |-> ImgRows(st.placed, 0, rows_n, cols_n)]

\* Number of pictures in the rows before row r (1-based).
RECURSIVE PicsBefore(_, _)
PicsBefore(img_rows, r) ==
    IF r <= 1 THEN 0 ELSE Len(img_rows[r - 1]) + PicsBefore(img_rows, r - 1)

PicCount(img_rows) == PicsBefore(img_rows, Len(img_rows) + 1)

\* Mutation of _build_pic: `instid` repeats `id`.
BuildPicOneId(it, z, counter) ==
    [tag |-> "pic", id |-> counter, instid |-> counter, zOrder |-> z,
     binaryItemIDRef |-> it.bid, w |-> it.disp_w, h |-> it.disp_h]

\* _build_pic(binary_id, img, disp_w, disp_h, z): `id` takes the next id and
\* `instid` the one after it.
_build_pic(it, z, counter) ==
    [tag |-> "pic", id |-> counter, instid |-> counter + 1, zOrder |-> z,
     binaryItemIDRef |-> it.bid, w |-> it.disp_w, h |-> it.disp_h]

NoText == <<>>

\* Mutation of the image cell: an empty image cell gets no paragraph.
OmittedImgParas(img_rows, z, counter) ==
    [r \in 1..Len(img_rows) |->
        [id |-> 0, text |-> NoText,
         pics |-> [k \in 1..Len(img_rows[r]) |->
                     _build_pic(img_rows[r][k], z + PicsBefore(img_rows, r) + k - 1,
                                counter + 2 * (PicsBefore(img_rows, r) + k - 1))]]]

\* The paragraphs of the image cell: one per image row, the pictures taking
\* z, z + 1, ... and two ids each in order; a single empty paragraph when
\* img_rows is empty.
ImgParas(img_rows, z, counter) ==
    IF img_rows # <<>>
    THEN [r \in 1..Len(img_rows) |->
            [id |-> 0, text |-> NoText,
             pics |-> [k \in 1..Len(img_rows[r]) |->
                         _build_pic(img_rows[r][k], z + PicsBefore(img_rows, r) + k - 1,
                                    counter + 2 * (PicsBefore(img_rows, r) + k - 1))]]]
    ELSE << [id |-> 0, text |-> NoText, pics |-> <<>>] >>

\* Mutation of _build_table: the table states three rows.
BuildTableThreeRows(title, img_rows, z, params, counter) ==
    [tbl |->
        [tag |-> "tbl", id |-> counter, zOrder |-> z,
         rowCnt |-> "3", colCnt |-> "1", borderFill |-> params.border_fill_id,
         trs |-> << [sz |-> <<Attr(ToString(params.cell_w)), Attr(ToString(params.title_row_h))>>,
                     paras |-> << [id |-> counter + 1, text |-> title, pics |-> <<>>] >>],
                    [sz |-> <<Attr(ToString(params.cell_w)), Attr(ToString(params.img_cell_h))>>,
                     paras |-> ImgParas(img_rows, z + 1, counter + 2)] >>],
     z |-> z + 1 + PicCount(img_rows),
     counter |-> counter + 2 + 2 * PicCount(img_rows)]

\* _build_table(title, img_rows, z, params) with the id counter threaded
\* through: the table takes an id and z, the title paragraph the next id.
_build_table(title, img_rows, z, params, counter) ==
    [tbl |->
        [tag |-> "tbl", id |-> counter, zOrder |-> z,
         rowCnt |-> "2", colCnt |-> "1", borderFill |-> params.border_fill_id,
         trs |-> << [sz |-> <<Attr(ToString(params.cell_w)), Attr(ToString(params.title_row_h))>>,
                     paras |-> << [id |-> counter + 1, text |-> title, pics |-> <<>>] >>],
                    [sz |-> <<Attr(ToString(params.cell_w)), Attr(ToString(params.img_cell_h))>>,
                     paras |-> ImgParas(img_rows, z + 1, counter + 2)] >>],
     z |-> z + 1 + PicCount(img_rows),
     counter |-> counter + 2 + 2 * PicCount(img_rows)]

\* p_wrap: hp:p > hp:run > (hp:tbl, hp:t)
Wrap(tbl, eid) == [tag |-> "p", eid |-> eid, runs |-> << <<tbl, [tag |-> "t"]>> >>]

\* The nested loops over the grid of a layout that has items.
Embedded(layout, imgs, bin_counter, new_binaries) ==
    ImgRowsOf(EmbedFrom(layout, imgs, 1,
                        [bin_counter |-> bin_counter, new_binaries |-> new_binaries,
                         placed |-> <<>>]),
              layout.grid[1], layout.grid[2])

\* `if layout and layout.items:` and its else branches.
Placed(layout, imgs, bin_counter, new_binaries) ==
    IF layout # None /\ layout.items # <<>>
    THEN Embedded(layout, imgs, bin_counter, new_binaries)
    ELSE [bin_counter |-> bin_counter, new_binaries |-> new_binaries, img_rows |-> <<>>]

\* `if not imgs: layout = None; else: layout = _layout(...)`
Laid(imgs, params, bin_counter, new_binaries) ==
    IF imgs = <<>>
    THEN Placed(None, imgs, bin_counter, new_binaries)
    ELSE Placed(_layout(imgs, img_w_mm(params), img_h_mm(params)),
                imgs, bin_counter, new_binaries)

\* One pass of the loop over data.iterrows() up to _build_table's
\* arguments: [bin_counter, new_binaries, img_rows].
RecordImages(img_paths, params, bin_counter, new_binaries) ==
    IF img_paths # <<>>
    THEN Laid(LoadImgs(img_paths), params, bin_counter, new_binaries)
    ELSE [bin_counter |-> bin_counter, new_binaries |-> new_binaries, img_rows |-> <<>>]

\* _MIME.get(ext, 'application/octet-stream')
Mime(ext) ==
    CASE ext = "png"  -> "image/png"
      [] ext = "jpg"  -> "image/jpeg"
      [] ext = "jpeg" -> "image/jpeg"
      [] ext = "bmp"  -> "image/bmp"
      [] ext = "gif"  -> "image/gif"
      [] ext = "webp" -> "image/webp"
      [] OTHER        -> "application/octet-stream"

\* Mutation of the manifest lookup: a manifest is always found.
ManifestNeverMissing(hpf) == FALSE

\* manifest is None
ManifestMissing(hpf) == ~hpf.opf.hasManifest

\* Mutation of _update_content_hpf: the manifest is written anew.
UpdateFromScratch(hpf, new_binaries) ==
    [opf |-> [hasManifest |-> TRUE,
              items |-> [i \in 1..Len(new_binaries) |->
                           [id    |-> new_binaries[i].key[2],
                            href  |-> new_binaries[i].key,
                            media |-> Mime(Lower(new_binaries[i].key[3]))]]]]

\* The loop of _update_content_hpf: one item per new binary, in order.
_update_content_hpf(hpf, new_binaries) ==
    [opf |-> [hasManifest |-> TRUE,
              items |-> hpf.opf.items \o
                        [i \in 1..Len(new_binaries) |->
                           [id    |-> new_binaries[i].key[2],
                            href  |-> new_binaries[i].key,
                            media |-> Mime(Lower(new_binaries[i].key[3]))]]]]

\* {name: zin.read(name) for name in zin.namelist()}
RECURSIVE ReadZip(_, _, _)
ReadZip(entries, i, d) ==
    IF i > Len(entries) THEN d
    ELSE ReadZip(entries, i + 1, DictSet(d, entries[i].key, entries[i].val))

\* for path, content in new_binaries.items(): zip_files[path] = content
RECURSIVE AddAll(_, _, _)
AddAll(d, new_binaries, i) ==
    IF i > Len(new_binaries) THEN d
    ELSE AddAll(DictSet(d, new_binaries[i].key, new_binaries[i].val), new_binaries, i + 1)

\* {info.filename: info for info in zin.infolist()}
RECURSIVE InfoList(_, _, _)
InfoList(entries, i, d) ==
    IF i > Len(entries) THEN d
    ELSE InfoList(entries, i + 1, DictSet(d, entries[i].key, entries[i].info))

\* The ZipInfo writestr makes for a name: the time of writing and the
\* compress_type argument, ZIP_DEFLATED.
NewInfo == [date_time |-> "now", compress_type |-> "ZIP_DEFLATED"]

\* Mutation of the open mode: the archive is opened for writing.
OpenedTruncating(entries) == <<>>

\* with zipfile.ZipFile(t_path, 'r') as zin: the entries of the file at
\* t_path once the block is left.
OpenedForReading(entries) == entries

\* Mutation of zipfile.is_zipfile: every file passes.
AnyFile(isZip) == TRUE

\* zipfile.is_zipfile(t_path)
is_zipfile(isZip) == isZip

\* ------------------------------------------------------------------------
\* State
\* ------------------------------------------------------------------------

\* One call of _layout: its arguments, its result and its position.
VARIABLES lImgs, lCw, lCh, lRes, lPc

\* The files run() works on: the template (whether it is a zip archive and
\* its entries in order), the records, and the output location (whether the
\* directory exists, and the output file).
VARIABLES tIsZip, tEntries, data, oDir, oFile

\* The module-level id counter, the number of the current invocation of
\* run(), and the outcome of the previous invocation.
VARIABLES idCounter, runNo, prev

\* The locals of run(): its position pc, the exception it raised (err), and
\* its variables; ri is the number of records the loop has processed.
VARIABLES pc, err, zip_infos, zip_files, root, params, insert_idx,
          bin_counter, z, new_binaries, ri

layoutVars == <<lImgs, lCw, lCh, lRes, lPc>>

fileVars == <<tIsZip, tEntries, data, oDir, oFile>>

localVars == <<pc, err, zip_infos, zip_files, root, params, insert_idx,
               bin_counter, z, new_binaries, ri>>

runVars == <<fileVars, idCounter, runNo, prev, localVars>>

vars == <<layoutVars, runVars>>

\* ------------------------------------------------------------------------
\* Inputs drawn
\* ------------------------------------------------------------------------

MaxBody == 3
MaxRecords == 2
MaxImgs == 2
MaxRuns == 2

RECURSIVE SeqsUpTo(_, _)
SeqsUpTo(S, n) ==
    IF n = 0 THEN { <<>> }
    ELSE LET shorter == SeqsUpTo(S, n - 1)
         IN shorter \cup { Append(s, x) : s \in { t \in shorter : Len(t) = n - 1 }, x \in S }

\* Tables of the template: a record block's table with both cell sizes, one
\* without attributes, and a three-row table.
TblA ==
    [tag |-> "tbl", id |-> 11, zOrder |-> 3, rowCnt |-> "2", colCnt |-> "1",
     borderFill |-> "7",
     trs |-> << [sz |-> <<Attr("40"), Attr("8")>>,  paras |-> << [id |-> 12, text |-> <<1, "old">>, pics |-> <<>>] >>],
                [sz |-> <<Attr("40"), Attr("24")>>, paras |-> << [id |-> 0, text |-> NoText, pics |-> <<>>] >>] >>]

TblB ==
    [tag |-> "tbl", id |-> 21, zOrder |-> NoAttr, rowCnt |-> "2", colCnt |-> "1",
     borderFill |-> "",
     trs |-> << [sz |-> <<Attr("64"), <<>>>>, paras |-> << [id |-> 22, text |-> <<2, "old">>, pics |-> <<>>] >>],
                [sz |-> <<>>, paras |-> << [id |-> 0, text |-> NoText,
                     pics |-> << [tag |-> "pic", id |-> 23, instid |-> 24, zOrder |-> 9,
                                  binaryItemIDRef |-> 1, w |-> 9, h |-> 9] >>] >>] >>]

Tbl31 ==
    [tag |-> "tbl", id |-> 31, zOrder |-> 2, rowCnt |-> "3", colCnt |-> "1",
     borderFill |-> "5",
     trs |-> << [sz |-> <<Attr("30"), Attr("6")>>,  paras |-> <<>>],
                [sz |-> <<Attr("30"), Attr("12")>>, paras |-> <<>>],
                [sz |-> <<Attr("30"), Attr("6")>>,  paras |-> <<>>] >>]

\* A record block's table whose title cell has a width that is no number.
TblBad ==
    [tag |-> "tbl", id |-> 51, zOrder |-> 4, rowCnt |-> "2", colCnt |-> "1",
     borderFill |-> "7",
     trs |-> << [sz |-> <<Attr("4o"), Attr("8")>>,
                 paras |-> << [id |-> 52, text |-> <<3, "old">>, pics |-> <<>>] >>],
                [sz |-> <<Attr("40"), Attr("24")>>,
                 paras |-> << [id |-> 0, text |-> NoText, pics |-> <<>>] >>] >>]

TemplatePic ==
    [tag |-> "pic", id |-> 41, instid |-> 42, zOrder |-> 5,
     binaryItemIDRef |-> 3, w |-> 10, h |-> 10]

Text == [tag |-> "t"]

\* Top-level children of the template body.
NodeKinds ==
    { "plain", "pic", "other", "blkA", "blkB", "dup", "two", "mix", "bad" }

Node(kind, eid) ==
    [tag  |-> IF kind = "other" THEN "other" ELSE "p",
     eid  |-> eid,
     runs |-> CASE kind = "plain" -> << <<Text>> >>
                [] kind = "pic"   -> << <<TemplatePic, Text>> >>
                [] kind = "other" -> << >>
                [] kind = "blkA"  -> << <<TblA, Text>> >>
                [] kind = "blkB"  -> << <<Text>>, <<TblB>> >>
                [] kind = "dup"   -> << <<TblA>>, <<TblB>> >>
                [] kind = "two"   -> << <<TblB, TblA>> >>
                [] kind = "mix"   -> << <<Tbl31, TblA>> >>
                [] kind = "bad"   -> << <<TblBad, Text>> >>]

Body(kinds) == [i \in 1..Len(kinds) |-> Node(kinds[i], i)]

Bodies == { Body(ks) : ks \in SeqsUpTo(NodeKinds, MaxBody) }

\* Bodies that an earlier run of run() wrote: a record block is what
\* _build_table and the wrapping made of a record, here one without and one
\* with a picture (of the template's image 1), under a profile.
EarlierBlocks(profile) ==
    LET b1 == _build_table(<<1, "meal">>, <<>>, 1, profile, IdBase)
        b2 == _build_table(<<3, "taxi">>,
                           << <<[bid |-> 1, disp_w |-> 10, disp_h |-> 10]>> >>,
                           b1.z, profile, b1.counter)
    IN << b1.tbl, b2.tbl >>

EarlierProfiles ==
    { DefaultParams,
      [cell_w |-> 40, title_row_h |-> 8, img_cell_h |-> 24, border_fill_id |-> "7"] }

OutputBodies ==
    UNION { { << Node("plain", 1), Wrap(EarlierBlocks(ps)[1], 2), Wrap(EarlierBlocks(ps)[2], 3) >>,
              << Wrap(EarlierBlocks(ps)[1], 1), Wrap(EarlierBlocks(ps)[2], 2), Node("pic", 3) >>,
              << Node("other", 1), Wrap(EarlierBlocks(ps)[1], 2), Node("plain", 3) >> } :
            ps \in EarlierProfiles }

Entry(key, val) == [key |-> key, val |-> val]

\* The manifest items of the template's numbered images.
TemplateItems ==
    << [id |-> "03", href |-> <<"BinData/image", "03", "png">>, media |-> "image/png"],
       [id |-> "1",  href |-> <<"BinData/image", "1", "jpg">>,  media |-> "image/jpeg"] >>

\* The template archive: the existing images (numbered 03 and 1, and one
\* without a number), the body and the package file are each present or not.
Parts(bins, sec, hpf, body, hasManifest) ==
    << Entry(<<"mimetype">>, [bytes |-> "mimetype"]) >>
    \o (IF bins
        THEN << Entry(<<"BinData/image", "03", "png">>, [bytes |-> "i3"]),
                Entry(<<"BinData/image", "1", "jpg">>, [bytes |-> "i1"]),
                Entry(<<"BinData/image", "x", "png">>, [bytes |-> "ix"]) >>
        ELSE <<>>)
    \o (IF sec THEN << Entry(SEC_KEY, [xml |-> body]) >> ELSE <<>>)
    \o (IF hpf
        THEN << Entry(HPF_KEY, [opf |-> [hasManifest |-> hasManifest,
                                         items |-> IF bins /\ hasManifest
                                                   THEN TemplateItems ELSE <<>>]]) >>
        ELSE <<>>)

\* The entries with the ZipInfo each has in the template file: its own
\* timestamp, and the mimetype entry stored, the others deflated.
Stamped(entries) ==
    [i \in 1..Len(entries) |->
        [key  |-> entries[i].key,
         val  |-> entries[i].val,
         info |-> [date_time     |-> "t" \o ToString(i),
                   compress_type |-> IF entries[i].key = <<"mimetype">>
                                     THEN "ZIP_STORED" ELSE "ZIP_DEFLATED"]]]

Entries(bins, sec, hpf, body, hasManifest) ==
    Stamped(Parts(bins, sec, hpf, body, hasManifest))

\* Image files.
Good == [load |-> TRUE,  w |-> 1, h |-> 1, read |-> TRUE,  ext |-> "png", src |-> "G"]
Tall == [load |-> TRUE,  w |-> 3, h |-> 5, read |-> TRUE,  ext |-> "JPG", src |-> "T"]
Gone == [load |-> TRUE,  w |-> 1, h |-> 1, read |-> FALSE, ext |-> "",    src |-> "X"]
Lost == [load |-> FALSE, w |-> 0, h |-> 0, read |-> FALSE, ext |-> "png", src |-> "L"]

Tiff == [load |-> TRUE,  w |-> 2, h |-> 1, read |-> TRUE,  ext |-> "tif", src |-> "F"]

Paths == { Good, Tall, Gone, Lost }

List(items) == [type |-> "list", items |-> items]

Raws ==
    { List(l) : l \in SeqsUpTo(Paths, MaxImgs) }
    \cup { [type |-> "none", items |-> <<>>], [type |-> "other", items |-> <<>>],
           [type |-> "str", items |-> <<Good>>], [type |-> "str", items |-> <<Lost>>],
           [type |-> "iter", items |-> <<Tall, Tiff>>] }

\* The record at position i of the frame: its index label and kind.
Row(i, raw) ==
    [idx |-> 2 * (i - 1), kind |-> IF i % 2 = 1 THEN "meal" ELSE "taxi", raw |-> raw]

Frame(raws) == [i \in 1..Len(raws) |-> Row(i, raws[i])]

Frames == { Frame(rs) : rs \in SeqsUpTo(Raws, MaxRecords) }

FewFrames ==
    { Frame(<<>>), Frame(<< List(<<Good>>) >>),
      Frame(<< List(<<Tall, Gone>>), [type |-> "none", items |-> <<>>] >>) }

NoFile == [exists |-> FALSE, entries |-> <<>>]

OldFile ==
    [exists |-> TRUE,
     entries |-> << [key |-> <<"old">>, val |-> [bytes |-> "old"], info |-> NewInfo] >>]

\* The output location before the run: nothing, the directory, or the
\* directory with an earlier output file.
Outputs == { [dir |-> FALSE, file |-> NoFile], [dir |-> TRUE, file |-> NoFile],
             [dir |-> TRUE, file |-> OldFile] }

FewTemplates ==
    { Entries(TRUE, TRUE, TRUE, Body(<<"plain", "blkA", "pic">>), TRUE),
      Entries(FALSE, TRUE, TRUE, Body(<<>>), TRUE),
      Entries(TRUE, TRUE, TRUE, Body(<<"blkB">>), FALSE) }

BrokenTemplates ==
    { Entries(TRUE, FALSE, TRUE, <<>>, TRUE),
      Entries(TRUE, TRUE, FALSE, Body(<<"blkA">>), TRUE),
      Entries(FALSE, FALSE, FALSE, <<>>, TRUE) }

\* The arguments of run() and the files they name.
Given(isZip, entries, frame, out) ==
    /\ tIsZip = isZip
    /\ tEntries = entries
    /\ data = frame
    /\ oDir = out.dir
    /\ oFile = out.file

\* Every body with a few frames, every frame with a few templates, and the
\* templates run() rejects, over the states of the output location.
InitFiles ==
    \/ \E b \in Bodies, f \in FewFrames :
          Given(TRUE, Entries(TRUE, TRUE, TRUE, b, TRUE), f, [dir |-> FALSE, file |-> NoFile])
    \/ \E t \in FewTemplates, f \in Frames :
          Given(TRUE, t, f, [dir |-> TRUE, file |-> NoFile])
    \/ \E t \in FewTemplates \cup BrokenTemplates, f \in FewFrames, o \in Outputs :
          Given(TRUE, t, f, o)
    \/ \E f \in FewFrames, o \in Outputs :
          Given(FALSE, <<>>, f, o)
    \/ \E b \in OutputBodies, f \in FewFrames :
          Given(TRUE, Entries(TRUE, TRUE, TRUE, b, TRUE), f, [dir |-> TRUE, file |-> NoFile])

\* ------------------------------------------------------------------------
\* run(data, t_path, o_path)
\* ------------------------------------------------------------------------

\* No call of _layout is being observed.
LayoutIdle ==
    /\ lImgs = <<>>
    /\ lCw = FlZero
    /\ lCh = FlZero
    /\ lRes = None
    /\ lPc = "idle"

\* The locals of an invocation that has not taken a step.
FreshLocals ==
    /\ pc = "start"
    /\ err = "none"
    /\ zip_infos = <<>>
    /\ zip_files = <<>>
    /\ root = <<>>
    /\ params = DefaultParams
    /\ insert_idx = 0
    /\ bin_counter = 0
    /\ z = 0
    /\ new_binaries = <<>>
    /\ ri = 0

Init ==
    /\ InitFiles
    /\ idCounter = IdBase
    /\ runNo = 1
    /\ prev = None
    /\ FreshLocals
    /\ LayoutIdle

\* raise ValueError(...)
Raise(e) == pc' = "raised" /\ err' = e

\* Steps 0 to 3: reset the id counter, check the template is a zip archive,
\* read it, check both parts are there, parse the body.
ReadTemplate ==
    /\ pc = "start"
    /\ idCounter' = _reset_id_counter(idCounter)
    /\ IF ~is_zipfile(tIsZip)
       THEN /\ Raise("not_zip")
            /\ UNCHANGED <<tEntries, zip_infos, zip_files, root>>
       ELSE LET files == ReadZip(tEntries, 1, <<>>)
            IN /\ tEntries' = OpenedForReading(tEntries)
               /\ zip_infos' = InfoList(tEntries, 1, <<>>)
               /\ zip_files' = files
               /\ IF ~HasKey(files, SEC_KEY)
                  THEN Raise("no_sec") /\ UNCHANGED root
                  ELSE IF ~HasKey(files, HPF_KEY)
                  THEN Raise("no_hpf") /\ UNCHANGED root
                  ELSE /\ root' = DictGet(files, SEC_KEY).xml
                       /\ pc' = "parsed"
                       /\ UNCHANGED err
    /\ UNCHANGED <<params, insert_idx, bin_counter, z, new_binaries, ri>>
    /\ UNCHANGED <<tIsZip, data, oDir, oFile, runNo, prev, layoutVars>>

\* Steps 4 and 5: find the record blocks, read the parameters, remember the
\* insertion position, remove the blocks, initialise the counters.
RemoveBlocks ==
    /\ pc = "parsed"
    /\ LET expense_ps == _find_expense_ps(root, 1)
           removal    == RemoveAll(root, expense_ps, 1)
       IN IF _read_template_params(expense_ps) = ValueError
          THEN /\ Raise("bad_attr")
               /\ UNCHANGED <<params, insert_idx, root, bin_counter, z, new_binaries>>
          ELSE /\ params' = _read_template_params(expense_ps)
               /\ insert_idx' = IF expense_ps # <<>> THEN IndexOf(root, expense_ps[1])
                                ELSE Len(root)
               /\ root' = removal.root
               /\ IF removal.raised
                  THEN /\ Raise("not_child")
                       /\ UNCHANGED <<bin_counter, z, new_binaries>>
                  ELSE /\ bin_counter' = _max_binary_idx(zip_files, 1, 0) + 1
                       /\ z' = _max_z_order(removal.root) + 1
                       /\ new_binaries' = <<>>
                       /\ pc' = "rows"
                       /\ UNCHANGED err
    /\ UNCHANGED <<zip_infos, zip_files, ri>>
    /\ UNCHANGED <<fileVars, idCounter, runNo, prev, layoutVars>>

\* root.insert(insert_idx, p_wrap); insert_idx += 1, with the counters the
\* table took.
InsertBlock(built, eid) ==
    /\ z' = built.z
    /\ idCounter' = built.counter
    /\ root' = InsertAt(root, insert_idx, Wrap(built.tbl, eid))
    /\ insert_idx' = insert_idx + 1

\* _build_table and the wrapping of its table.
BuildBlock(row, imgs) ==
    /\ bin_counter' = imgs.bin_counter
    /\ new_binaries' = imgs.new_binaries
    /\ InsertBlock(_build_table(Title(row), imgs.img_rows, z, params, idCounter),
                   Len(DictGet(zip_files, SEC_KEY).xml) + ri + 1)

\* Step 6, one pass of the loop: the record's title and images, its table,
\* the wrapping paragraph inserted at insert_idx.
BuildRecord ==
    /\ pc = "rows"
    /\ ri < Len(data)
    /\ BuildBlock(data[ri + 1],
                  RecordImages(ImgPaths(data[ri + 1].raw), params, bin_counter, new_binaries))
    /\ ri' = ri + 1
    /\ UNCHANGED <<pc, err, zip_infos, zip_files, params>>
    /\ UNCHANGED <<fileVars, runNo, prev, layoutVars>>

\* Steps 7 and 8: serialise the body, add the new binaries, register them in
\* the manifest.
Serialize ==
    /\ pc = "rows"
    /\ ri = Len(data)
    /\ LET files == AddAll(DictSet(zip_files, SEC_KEY, [xml |-> root]), new_binaries, 1)
           hpf   == DictGet(files, HPF_KEY)
       IN IF new_binaries = <<>>
          THEN zip_files' = files /\ pc' = "packed" /\ UNCHANGED err
          ELSE IF ManifestMissing(hpf)
          THEN zip_files' = files /\ Raise("no_manifest")
          ELSE /\ zip_files' = DictSet(files, HPF_KEY, _update_content_hpf(hpf, new_binaries))
               /\ pc' = "packed"
               /\ UNCHANGED err
    /\ UNCHANGED <<zip_infos, root, params, insert_idx, bin_counter, z, new_binaries, ri>>
    /\ UNCHANGED <<fileVars, idCounter, runNo, prev, layoutVars>>

\* Mutation of the write loop: every entry is written by its name.
ZipWrittenByName(files, infos) ==
    [i \in 1..Len(files) |->
       [key |-> files[i].key, val |-> files[i].val, info |-> NewInfo]]

\* Mutation of the write loop: only entries without an original ZipInfo are
\* written.
ZipWrittenNew(files, infos) ==
    LET fresh == SelectSeq(files, LAMBDA f : ~HasKey(infos, f.key))
    IN [i \in 1..Len(fresh) |->
          [key |-> fresh[i].key, val |-> fresh[i].val, info |-> NewInfo]]

\* for name, content in zip_files.items(): zout.writestr(orig or name, content)
ZipWritten(files, infos) ==
    [i \in 1..Len(files) |->
       [key  |-> files[i].key,
        val  |-> files[i].val,
        info |-> IF HasKey(infos, files[i].key)
                 THEN DictGet(infos, files[i].key) ELSE NewInfo]]

\* Step 9: create the output directory and write the archive, entries that
\* came from the template with their original ZipInfo.
WriteOutput ==
    /\ pc = "packed"
    /\ oDir' = TRUE
    /\ oFile' = [exists |-> TRUE, entries |-> ZipWritten(zip_files, zip_infos)]
    /\ pc' = "done"
    /\ UNCHANGED <<err, zip_infos, zip_files, root, params, insert_idx,
                   bin_counter, z, new_binaries, ri>>
    /\ UNCHANGED <<tIsZip, tEntries, data, idCounter, runNo, prev, layoutVars>>

\* What an invocation leaves behind.
Outcome ==
    [pc |-> pc, err |-> err, root |-> root, zip_files |-> zip_files,
     new_binaries |-> new_binaries, oDir |-> oDir, oFile |-> oFile]

Ended == pc \in { "done", "raised" }

\* run() is called again in the same process with the same arguments.
Reinvoke ==
    /\ Ended
    /\ runNo < MaxRuns
    /\ runNo' = runNo + 1
    /\ prev' = Outcome
    /\ pc' = "start"
    /\ err' = "none"
    /\ zip_infos' = <<>>
    /\ zip_files' = <<>>
    /\ root' = <<>>
    /\ params' = DefaultParams
    /\ insert_idx' = 0
    /\ bin_counter' = 0
    /\ z' = 0
    /\ new_binaries' = <<>>
    /\ ri' = 0
    /\ UNCHANGED <<fileVars, idCounter, layoutVars>>

Next ==
    \/ ReadTemplate
    \/ RemoveBlocks
    \/ BuildRecord
    \/ Serialize
    \/ WriteOutput
    \/ Reinvoke

Spec == Init /\ [][Next]_vars

\* ---- the layout specification: one call of _layout on drawn inputs ----

\* Pixel sizes of the images drawn.
ImgShapes == { [w |-> 1, h |-> 1], [w |-> 3, h |-> 5] }

\* Container sides (mm) drawn.
ContainerSides == { FlFromInt(1), FlFromInt(7), FlDiv(FlFromInt(10), FlFromInt(3)) }

\* No invocation of run() is under way.
RunIdle ==
    /\ tIsZip = FALSE
    /\ tEntries = <<>>
    /\ data = <<>>
    /\ oDir = FALSE
    /\ oFile = NoFile
    /\ idCounter = IdBase
    /\ runNo = 1
    /\ prev = None
    /\ FreshLocals

InitLayout ==
    /\ lImgs \in SeqsUpTo(ImgShapes, MaxLayoutImgs)
    /\ lCw \in ContainerSides
    /\ lCh \in ContainerSides
    /\ lRes = None
    /\ lPc = "call"
    /\ RunIdle

CallLayout ==
    /\ lPc = "call"
    /\ lRes' = _layout(lImgs, lCw, lCh)
    /\ lPc' = "returned"
    /\ UNCHANGED <<lImgs, lCw, lCh>>
    /\ UNCHANGED runVars

NextLayout == CallLayout

SpecLayout == InitLayout /\ [][NextLayout]_vars

\* ---- claims about _layout, checked under SpecLayout ----

Returned == lPc = "returned"

MinInt(a, b) == IF a < b THEN a ELSE b

\* C1: for n >= 1 images _layout returns a result, never None, with exactly
\* n items, item i referring to input image i; it returns None exactly when
\* n = 0.
C1_LayoutCoversEveryImage ==
    Returned =>
        /\ (lRes = None) <=> (Len(lImgs) = 0)
        /\ lRes # None =>
              /\ Len(lRes.items) = Len(lImgs)
              /\ \A i \in 1..Len(lImgs) : lRes.items[i].idx = i - 1

\* C1 witness: a call with several images has returned a layout.
C1_Witness ==
    Returned /\ Len(lImgs) = 3 /\ lRes # None /\ lRes.grid = <<2, 2>>

\* C2: in the returned layout with grid (rows, cols) every item's display
\* width is <= container_width / cols and its display height is
\* <= container_height / rows.
C2_ItemsWithinCell ==
    Returned /\ lRes # None =>
        \A i \in 1..Len(lRes.items) :
            /\ FlLe(lRes.items[i].w, CellW(lCw, lRes.grid[2]))
            /\ FlLe(lRes.items[i].h, CellH(lCh, lRes.grid[1]))

\* C3: _layout returns the candidate of largest total area among the column
\* counts 1..min(n, 5); among candidates of equal maximal area the one with
\* the smallest column count; so its area is >= the single-column
\* candidate's and its column count is at most 5.
C3_LargestAreaSmallestColumns ==
    Returned /\ lRes # None =>
        LET n == Len(lImgs)
            c == lRes.grid[2]
        IN /\ c \in 1..MinInt(n, 5)
           /\ lRes = Candidate(lImgs, lCw, lCh, c)
           /\ \A k \in 1..MinInt(n, 5) :
                 FlLe(Candidate(lImgs, lCw, lCh, k).area, lRes.area)
           /\ \A k \in 1..(c - 1) :
                 FlLt(Candidate(lImgs, lCw, lCh, k).area, lRes.area)

\* C3 witness: six images, and a candidate with more columns than the
\* returned one has the same area.
C3_Witness ==
    /\ Returned /\ lRes # None /\ Len(lImgs) = 6
    /\ \E k \in (lRes.grid[2] + 1)..5 :
          Candidate(lImgs, lCw, lCh, k).area = lRes.area


\* ---- claims about run(), checked under Spec ----

\* The template passes the checks of steps 1 and 2.
Accepted == tIsZip /\ HasKey(tEntries, SEC_KEY) /\ HasKey(tEntries, HPF_KEY)

TemplateBody == DictGet(tEntries, SEC_KEY).xml

OutBody == DictGet(oFile.entries, SEC_KEY).xml

\* A record block: a top-level paragraph holding a two-row one-column table.
IsBlock(node) ==
    /\ node.tag = "p"
    /\ \E r \in 1..Len(node.runs) :
          \E k \in 1..Len(node.runs[r]) : IsExpenseTbl(node.runs[r][k])

BlockPositions(body) == { i \in 1..Len(body) : IsBlock(body[i]) }

Minimum(S) == CHOOSE x \in S : \A y \in S : x <= y

\* C4: for a template body with k record blocks and m records, the output
\* body holds exactly m record blocks, none of them one of the k original
\* blocks, at consecutive top-level positions starting where the first
\* original block was.
C4_BlockCountRoundTrip ==
    Ended /\ Accepted /\ err # "no_manifest" =>
        /\ pc = "done"
        /\ LET old == BlockPositions(TemplateBody)
               new == BlockPositions(OutBody)
           IN /\ Cardinality(new) = Len(data)
              /\ \A i \in new : \A j \in old : OutBody[i].eid # TemplateBody[j].eid
              /\ old # {} => new = Minimum(old)..(Minimum(old) + Len(data) - 1)

\* C5: a second invocation of run with the same records and template, in
\* the same process, ends as the first did: the same synthesized body with
\* the same element ids and stacking orders, the same archive content, the
\* same output.
C5_Determinism == runNo > 1 /\ Ended => Outcome = prev

\* C5 witness: both invocations packed two records with embedded images.
C5_Witness ==
    /\ runNo > 1 /\ pc = "done" /\ prev.pc = "done"
    /\ Len(data) = 2 /\ Len(new_binaries) >= 2

\* The numbers N of the template's BinData/imageN entries.
TemplateIds ==
    { IntOf(tEntries[i].key[2]) :
        i \in { k \in 1..Len(tEntries) :
                  StartsWithBinDataImage(tEntries[k].key) /\ IsInt(tEntries[k].key[2]) } }

TemplateMax == IF TemplateIds = {} THEN 0 ELSE Maximum(TemplateIds)

\* The ids of the binaries added so far, in the order they were added.
NewIds == [i \in 1..Len(new_binaries) |-> IntOf(new_binaries[i].key[2])]

\* C6: the ids of the binary assets added in a run are strictly increasing
\* in allocation order, the first is the template's maximum BinData/imageN
\* number plus one, and none equals an id of the template.
C6_FreshIncreasingAssetIds ==
    /\ \A i \in 1..(Len(NewIds) - 1) : NewIds[i] < NewIds[i + 1]
    /\ NewIds # <<>> => NewIds[1] = TemplateMax + 1
    /\ \A i \in 1..Len(NewIds) : NewIds[i] \notin TemplateIds

\* C6 witness: a run on a template with numbered images has added three or
\* more assets.
C6_Witness ==
    pc = "done" /\ TemplateIds # {} /\ Len(new_binaries) >= 3

\* C7: with a template that is not a zip archive, run raises the format
\* error as its first step, before it reads or builds anything, and no step
\* creates or changes the output file or creates the output directory.
C7_NonZipRaisesFirst ==
    [][ ~tIsZip =>
          /\ UNCHANGED <<oDir, oFile>>
          /\ pc = "start" =>
                /\ pc' = "raised" /\ err' = "not_zip"
                /\ UNCHANGED <<zip_infos, zip_files, root, params, insert_idx,
                               bin_counter, z, new_binaries, ri>> ]_vars

\* C7 witness: run has raised on a non-zip template where the output
\* directory does not exist.
C7_Witness == ~tIsZip /\ pc = "raised" /\ err = "not_zip" /\ ~oDir

\* The package file of the template has no manifest element.
ManifestAbsent ==
    HasKey(tEntries, HPF_KEY) /\ ~DictGet(tEntries, HPF_KEY).opf.hasManifest

\* The archive content is assembled: the serialised body with a block per
\* record, every new binary, and the manifest naming every new binary.
Assembled ==
    /\ ri = Len(data)
    /\ HasKey(zip_files, SEC_KEY) /\ DictGet(zip_files, SEC_KEY).xml = root
    /\ HasKey(zip_files, HPF_KEY)
    /\ \A i \in 1..Len(new_binaries) :
          /\ HasKey(zip_files, new_binaries[i].key)
          /\ \E k \in 1..Len(DictGet(zip_files, HPF_KEY).opf.items) :
                DictGet(zip_files, HPF_KEY).opf.items[k].href = new_binaries[i].key

\* C8: when the body part or the package part is missing from the archive,
\* or the manifest update fails, run raises and writes nothing; the output
\* location changes only in the step that writes the fully assembled
\* archive, so a run that raises leaves no partial output.
C8_NoPartialOutput ==
    [][ /\ (oFile' # oFile \/ oDir' # oDir) =>
              /\ pc = "packed" /\ pc' = "done" /\ err = "none"
              /\ Assembled
              /\ oDir' /\ oFile'.exists
              /\ Len(oFile'.entries) = Len(zip_files)
              /\ \A i \in 1..Len(zip_files) :
                    /\ oFile'.entries[i].key = zip_files[i].key
                    /\ oFile'.entries[i].val = zip_files[i].val
        /\ pc' = "raised" => UNCHANGED <<oDir, oFile>>
        /\ ( /\ Ended' /\ tIsZip
             /\ \/ ~HasKey(tEntries, SEC_KEY)
                \/ ~HasKey(tEntries, HPF_KEY)
                \/ ManifestAbsent /\ new_binaries' # <<>> )
           => pc' = "raised" /\ err' \in { "no_sec", "no_hpf", "no_manifest" } ]_vars

\* C8 witness: the manifest update failed after images had been embedded,
\* and the earlier output file is still there.
C8_Witness ==
    pc = "raised" /\ err = "no_manifest" /\ new_binaries # <<>> /\ oFile = OldFile

\* The block of record j (1-based) of the current invocation.
BlockOf(j) == root[insert_idx - ri + j]

TableOf(block) == block.runs[1][1]

AssetBytes(bins, n) ==
    bins[CHOOSE i \in 1..Len(bins) : bins[i].key[2] = ToString(n)].val.bytes

\* The images a block shows: per non-empty image paragraph, the content and
\* the display size of each picture.
ShownIn(block) ==
    LET paras == SelectSeq(TableOf(block).trs[2].paras, LAMBDA q : q.pics # <<>>)
    IN [q \in 1..Len(paras) |->
          [k \in 1..Len(paras[q].pics) |->
             [bytes |-> AssetBytes(new_binaries, paras[q].pics[k].binaryItemIDRef),
              w |-> paras[q].pics[k].w, h |-> paras[q].pics[k].h]]]

\* The images the record shows when it is processed on its own.
ShownAlone(alone) ==
    [q \in 1..Len(alone.img_rows) |->
       [k \in 1..Len(alone.img_rows[q]) |->
          [bytes |-> AssetBytes(alone.new_binaries, alone.img_rows[q][k].bid),
           w |-> alone.img_rows[q][k].disp_w, h |-> alone.img_rows[q][k].disp_h]]]

\* C10: once the template is accepted, run ends normally or with the format
\* error, and whatever loads or reads fail every record has exactly one
\* block, with its own title and the images it would show on its own.
C10_OnlyFormatErrorTerminates ==
    Ended /\ Accepted =>
        /\ pc = "done" \/ err = "no_manifest"
        /\ ri = Len(data)
        /\ Cardinality(BlockPositions(root)) = Len(data)
        /\ \A j \in 1..Len(data) :
              /\ IsBlock(BlockOf(j))
              /\ TableOf(BlockOf(j)).trs[1].paras[1].text = Title(data[j])
              /\ ShownIn(BlockOf(j)) =
                    ShownAlone(RecordImages(ImgPaths(data[j].raw), params, 1, <<>>))

\* C11: no step of run changes the file at the template path, whether the
\* invocation ends normally or raises, and the output file is written only
\* from the fully assembled in-memory archive.
C11_TemplateNeverMutated ==
    [][ /\ UNCHANGED <<tIsZip, tEntries>>
        /\ oFile' # oFile => pc = "packed" /\ Assembled ]_vars

\* C11 witness: a second invocation on the same template has written an
\* output with new binaries.
C11_Witness ==
    runNo > 1 /\ pc = "done" /\ oFile.exists /\ new_binaries # <<>> /\ tEntries # <<>>

\* The names of the entries of an archive.
KeysOf(entries) == { entries[i].key : i \in 1..Len(entries) }

\* The entries of an archive that carry the name key.
EntriesNamed(entries, key) == { i \in 1..Len(entries) : entries[i].key = key }

\* C12: in the output of a run every template entry other than the body and
\* the package file appears once under the same name with the same bytes, no
\* template entry is missing, and the entries added are exactly the new
\* image binaries, all named BinData/image...
C12_UnrelatedPartsUntouched ==
    pc = "done" =>
        /\ \A i \in 1..Len(tEntries) :
              /\ Cardinality(EntriesNamed(oFile.entries, tEntries[i].key)) = 1
              /\ tEntries[i].key \notin { SEC_KEY, HPF_KEY } =>
                    \A k \in EntriesNamed(oFile.entries, tEntries[i].key) :
                        oFile.entries[k].val = tEntries[i].val
        /\ KeysOf(oFile.entries) \ KeysOf(tEntries) = KeysOf(new_binaries)
        /\ \A i \in 1..Len(new_binaries) :
              /\ StartsWithBinDataImage(new_binaries[i].key)
              /\ \A k \in EntriesNamed(oFile.entries, new_binaries[i].key) :
                    oFile.entries[k].val = new_binaries[i].val

\* C12 witness: a run on a template with three image entries has written an
\* output with new binaries.
C12_Witness ==
    /\ pc = "done" /\ new_binaries # <<>>
    /\ \E i \in 1..Len(tEntries) : tEntries[i].key = <<"BinData/image", "x", "png">>

\* C13: locating the record blocks and reading the profile never raises,
\* whatever the template body: where run is about to read the profile the
\* reader returns a profile, and no run ends with the reader's exception.
C13_ExtractorNeverRaises ==
    /\ pc = "parsed" => _read_template_params(_find_expense_ps(root, 1)) # ValueError
    /\ err # "bad_attr"

\* The concatenation of a sequence of sequences.
RECURSIVE Flat(_)
Flat(seqs) == IF seqs = <<>> THEN <<>> ELSE Head(seqs) \o Flat(Tail(seqs))

\* The image references of a block in document order.
PicsOf(block) ==
    Flat([q \in 1..Len(TableOf(block).trs[2].paras) |->
            TableOf(block).trs[2].paras[q].pics])

\* The stacking-order values of a block in document order: its table's,
\* then its image references'.
ZOrdersOf(block) ==
    <<TableOf(block).zOrder>> \o
    [k \in 1..Len(PicsOf(block)) |-> PicsOf(block)[k].zOrder]

\* The stacking-order values of the template elements left in the body.
KeptZOrders ==
    UNION { ZOrdersOfNode(root[i]) :
              i \in { k \in 1..Len(root) : root[k].eid <= Len(TemplateBody) } }

\* C14: each synthesized table takes one stacking-order value and each of
\* its image references the next ones, so a block with j references moves
\* the counter by 1 + j; over the run the values are strictly increasing in
\* document order, hence distinct, and all above every value of the
\* template body the blocks are inserted into.
C14_StackingOrder ==
    ri >= 1 =>
        /\ \A j \in 1..ri :
              /\ \A k \in 1..Len(ZOrdersOf(BlockOf(j))) :
                    ZOrdersOf(BlockOf(j))[k] = ZOrdersOf(BlockOf(j))[1] + k - 1
              /\ \A v \in KeptZOrders : v < ZOrdersOf(BlockOf(j))[1]
              /\ (IF j < ri THEN ZOrdersOf(BlockOf(j + 1))[1] ELSE z)
                    = ZOrdersOf(BlockOf(j))[1] + 1 + Len(PicsOf(BlockOf(j)))
        /\ LET zs == Flat([j \in 1..ri |-> ZOrdersOf(BlockOf(j))])
           IN \A k \in 1..(Len(zs) - 1) : zs[k] < zs[k + 1]

\* C14 witness: two blocks, the first with two image references, in a body
\* that kept a template element with a stacking-order value.
C14_Witness ==
    /\ pc = "done" /\ ri = 2 /\ KeptZOrders # {}
    /\ Len(PicsOf(BlockOf(1))) = 2 /\ Len(PicsOf(BlockOf(2))) >= 1

\* The ids a block drew from the allocator, in document order: the table's,
\* the title paragraph's, then id and instid of each image reference.
DrawnIds(block) ==
    <<TableOf(block).id, TableOf(block).trs[1].paras[1].id>> \o
    Flat([k \in 1..Len(PicsOf(block)) |->
            <<PicsOf(block)[k].id, PicsOf(block)[k].instid>>])

AllDrawnIds == Flat([j \in 1..ri |-> DrawnIds(BlockOf(j))])

\* C15: the ids drawn from the allocator in one run (table, title paragraph,
\* id and instid of every image reference) are pairwise different: every
\* draw returns a value no earlier draw of the run returned.
C15_FreshElementIds ==
    ri >= 1 =>
        LET ids == AllDrawnIds
        IN /\ \A a, b \in 1..Len(ids) : a # b => ids[a] # ids[b]
           /\ \A a \in 1..Len(ids) : ids[a] < idCounter
           /\ Len(ids) = idCounter - IdBase

\* C15 witness: a finished run with two blocks and three or more image
\* references.
C15_Witness ==
    pc = "done" /\ ri = 2 /\ Len(AllDrawnIds) >= 10

\* The asset ids a block refers to, in document order.
AssetIdsOf(block) == [k \in 1..Len(PicsOf(block)) |-> PicsOf(block)[k].binaryItemIDRef]

\* Every element of the sequence a is smaller than every element of b.
AllBelow(a, b) == \A x \in 1..Len(a) : \A y \in 1..Len(b) : a[x] < b[y]

\* C16: the records are processed in input order: the blocks stand in the
\* body in the order of the records, the block of record i right before the
\* block of record i + 1, and the asset ids and stacking-order values of an
\* earlier record are all smaller than those of a later one.
C16_InputOrder ==
    /\ \A j \in 1..ri :
          /\ IsBlock(BlockOf(j))
          /\ TableOf(BlockOf(j)).trs[1].paras[1].text = Title(data[j])
    /\ \A i, j \in 1..ri :
          i < j =>
             /\ AllBelow(AssetIdsOf(BlockOf(i)), AssetIdsOf(BlockOf(j)))
             /\ AllBelow(ZOrdersOf(BlockOf(i)), ZOrdersOf(BlockOf(j)))

\* C16 witness: two records, both with embedded images, have been processed.
C16_Witness ==
    /\ pc = "done" /\ ri = 2
    /\ PicsOf(BlockOf(1)) # <<>> /\ PicsOf(BlockOf(2)) # <<>>

\* The manifest items of an archive.
ItemsOf(entries) == DictGet(entries, HPF_KEY).opf.items

\* C17: the manifest of the output keeps every item of the template, in
\* place, and after them has exactly one item per new image binary, with the
\* asset's id (its file name without the extension), its archive path, and
\* the media type that goes with its extension.
C17_ManifestDeclaresAssets ==
    pc = "done" =>
        LET old == ItemsOf(tEntries)
            now == ItemsOf(oFile.entries)
        IN /\ Len(now) = Len(old) + Len(new_binaries)
           /\ \A k \in 1..Len(old) : now[k] = old[k]
           /\ \A i \in 1..Len(new_binaries) :
                 /\ now[Len(old) + i].href = new_binaries[i].key
                 /\ now[Len(old) + i].id = new_binaries[i].key[2]
                 /\ now[Len(old) + i].media = Mime(new_binaries[i].key[3])
                 /\ Cardinality({ k \in 1..Len(now) : now[k].href = new_binaries[i].key }) = 1

\* C17 witness: an output whose manifest kept the template's items and
\* gained a jpg and an asset of a type outside the table.
C17_Witness ==
    /\ pc = "done" /\ ItemsOf(tEntries) # <<>>
    /\ \E i, j \in 1..Len(new_binaries) :
          new_binaries[i].key[3] = "jpg" /\ new_binaries[j].key[3] = "tif"

\* ---- C19 and C20, checked under Spec ----

\* The images of record j that the run loaded, in input order.
LoadedOf(j) == LoadImgs(ImgPaths(data[j].raw))

\* The layout of record j's loaded images.
LayoutOf(j) == _layout(LoadedOf(j), img_w_mm(params), img_h_mm(params))

\* The paragraphs of the image cell of record j's block.
ImageCell(j) == TableOf(BlockOf(j)).trs[2].paras

\* The picture pic shows the image img at the size of the layout item.
Shows(pic, img, item) ==
    /\ \E k \in 1..Len(new_binaries) :
          new_binaries[k].key[2] = ToString(pic.binaryItemIDRef)
    /\ AssetBytes(new_binaries, pic.binaryItemIDRef) = img.src
    /\ pic.w = DispSize(item.w)
    /\ pic.h = DispSize(item.h)

\* C19: for a record whose layout has grid (rows, cols) the image cell has
\* one paragraph per grid row, and image i (0-based) of the loaded images is
\* the picture at column i % cols of paragraph i // cols, so that the
\* pictures in document order are the loaded images in order, once each.
C19_GridPlacement ==
    \A j \in 1..ri :
        LoadedOf(j) # <<>> =>
            /\ LayoutOf(j) # None
            /\ Len(ImageCell(j)) = LayoutOf(j).grid[1]
            /\ Len(PicsOf(BlockOf(j))) = Len(LoadedOf(j))
            /\ \A i \in 0..(Len(LoadedOf(j)) - 1) :
                  LET r == (i \div LayoutOf(j).grid[2]) + 1
                      c == (i % LayoutOf(j).grid[2]) + 1
                  IN /\ r <= Len(ImageCell(j))
                     /\ c <= Len(ImageCell(j)[r].pics)
                     /\ Shows(ImageCell(j)[r].pics[c], LoadedOf(j)[i + 1],
                              LayoutOf(j).items[i + 1])

\* C20: when an image of a record fails to load, the record still gets its
\* block, the layout is that of the images that loaded, in their order, and
\* every one of them is shown in the block.
C20_LoadFailureDropsOneImage ==
    \A j \in 1..ri :
        (\E k \in 1..Len(ImgPaths(data[j].raw)) : ~ImgPaths(data[j].raw)[k].load) =>
            /\ IsBlock(BlockOf(j))
            /\ TableOf(BlockOf(j)).trs[1].paras[1].text = Title(data[j])
            /\ \A i \in 1..Len(LoadedOf(j)) :
                  \E k \in 1..Len(PicsOf(BlockOf(j))) :
                      Shows(PicsOf(BlockOf(j))[k], LoadedOf(j)[i], LayoutOf(j).items[i])
            /\ Len(PicsOf(BlockOf(j))) <= Len(LoadedOf(j))

\* ---- C18, checked under SpecLayout ----

\* m is the element at 0-based index k of the ascending order of scales:
\* one of them, with at most k of them below it and more than k of them
\* not above it.
IsAtSortedIndex(m, scales, k) ==
    /\ \E i \in 1..Len(scales) : scales[i] = m
    /\ Cardinality({ i \in 1..Len(scales) : FlLt(scales[i], m) }) <= k
    /\ Cardinality({ i \in 1..Len(scales) : FlLe(scales[i], m) }) > k

\* The items of one column count follow the median rule: with the uniform
\* scale m at index n // 2 of the sorted maximum scales, item i is image i
\* scaled by min(m, its maximum scale), and at least ceil(n / 2) images are
\* scaled by m itself.
MedianRule(imgs, cw, ch, cols, items) ==
    LET n      == Len(imgs)
        cell_w == CellW(cw, cols)
        cell_h == CellH(ch, Rows(n, cols))
        scales == [i \in 1..n |-> MaxScale(imgs[i], cell_w, cell_h)]
    IN \E j \in 1..n :
          LET m == scales[j] IN
          /\ IsAtSortedIndex(m, scales, n \div 2)
          /\ Len(items) = n
          /\ \A i \in 1..n :
                /\ items[i].w = FlMul(FlFromInt(imgs[i].w), FlMin(m, scales[i]))
                /\ items[i].h = FlMul(FlFromInt(imgs[i].h), FlMin(m, scales[i]))
          /\ Cardinality({ i \in 1..n : FlMin(m, scales[i]) = m }) >= Rows(n, 2)

\* C18: for every candidate column count the uniform scale is the element
\* at index n // 2 of the ascending-sorted maximum scales, each image's scale
\* is the minimum of the uniform scale and its own maximum scale, and at
\* least ceil(n / 2) images are shown at exactly the uniform scale; the
\* returned layout is such a candidate.
C18_MedianScale ==
    Returned /\ Len(lImgs) > 0 =>
        /\ \A cols \in 1..(ColumnStop(Len(lImgs)) - 1) :
              MedianRule(lImgs, lCw, lCh, cols, Candidate(lImgs, lCw, lCh, cols).items)
        /\ lRes # None /\ MedianRule(lImgs, lCw, lCh, lRes.grid[2], lRes.items)

\* C18 witness: five images laid out, exactly three of them at the uniform
\* scale and the other two held below it by their own maximum.
C18_Witness ==
    /\ Returned /\ Len(lImgs) = 5 /\ lRes # None
    /\ LET cell_w == CellW(lCw, lRes.grid[2])
           cell_h == CellH(lCh, lRes.grid[1])
           m      == MedianScale(lImgs, cell_w, cell_h)
       IN Cardinality({ i \in 1..5 : FlLt(MaxScale(lImgs[i], cell_w, cell_h), m) }) = 2

\* ---- C21 and C22, checked under Spec ----

\* The run has read the profile and removed the old blocks.
ProfileRead == pc \in {"rows", "packed", "done"}

\* The two-row one-column tables of a paragraph in document order.
RecordTablesOf(p) ==
    Flat([r \in 1..Len(p.runs) |-> SelectSeq(p.runs[r], IsExpenseTbl)])

\* The table of the first record block of the template body.
FirstRecordTable == RecordTablesOf(_find_expense_ps(TemplateBody, 1)[1])[1]

\* The attribute k (1 width, 2 height) of the cell size of row r is there.
HasSize(tbl, r, k) == tbl.trs[r].sz # <<>> /\ tbl.trs[r].sz[k] # <<>>

SizeOf(tbl, r, k) == IntOf(tbl.trs[r].sz[k][1])

\* C21: a template without a record block gives the all-default profile;
\* with a record block, a field whose element or attribute is missing in
\* the block's table keeps its default and a field that is there is taken
\* from it.
C21_UnresolvedFieldsKeepDefault ==
    ProfileRead =>
        IF _find_expense_ps(TemplateBody, 1) = <<>>
        THEN params = DefaultParams
        ELSE LET tbl == FirstRecordTable IN
             /\ params.border_fill_id =
                   (IF tbl.borderFill = "" THEN DefaultParams.border_fill_id
                    ELSE tbl.borderFill)
             /\ params.title_row_h =
                   (IF HasSize(tbl, 1, 2) THEN SizeOf(tbl, 1, 2)
                    ELSE DefaultParams.title_row_h)
             /\ params.img_cell_h =
                   (IF HasSize(tbl, 2, 2) THEN SizeOf(tbl, 2, 2)
                    ELSE DefaultParams.img_cell_h)
             /\ IF HasSize(tbl, 1, 1) \/ HasSize(tbl, 2, 1)
                THEN \E r \in 1..2 : HasSize(tbl, r, 1) /\ params.cell_w = SizeOf(tbl, r, 1)
                ELSE params.cell_w = DefaultParams.cell_w

\* The tables of a paragraph.
TablesIn(p) ==
    UNION { { p.runs[r][k] : k \in { k \in 1..Len(p.runs[r]) : p.runs[r][k].tag = "tbl" } } :
            r \in 1..Len(p.runs) }

\* The cell widths a paragraph's tables state.
WidthsIn(p) ==
    UNION { { SizeOf(tbl, t, 1) : t \in { t \in 1..Len(tbl.trs) : HasSize(tbl, t, 1) } } :
            tbl \in TablesIn(p) }

\* C22: the profile is that of the first record block in top-level order:
\* it is what the reader gives for that block alone, its cell width is the
\* default or a width stated in that block, and no later record block has a
\* part in it.
C22_FirstBlockOnly ==
    ProfileRead /\ _find_expense_ps(TemplateBody, 1) # <<>> =>
        LET first == TemplateBody[Minimum(BlockPositions(TemplateBody))]
        IN /\ params = _read_template_params(<<first>>)
           /\ params.cell_w \in {DefaultParams.cell_w} \cup WidthsIn(first)

\* C22 witness: the profile was read from a body whose later record block
\* alone would give another profile.
C22_Witness ==
    /\ ProfileRead
    /\ Cardinality(BlockPositions(TemplateBody)) >= 2
    /\ \E i \in BlockPositions(TemplateBody) :
          /\ i > Minimum(BlockPositions(TemplateBody))
          /\ _read_template_params(<<TemplateBody[i]>>) # ValueError
          /\ _read_template_params(<<TemplateBody[i]>>) # params

\* C23: in the archive written, an entry whose name the template had
\* carries the timestamp and compression method it had there, any other
\* entry carries the default ones; the template's entries come first, in
\* the template's order, and the new entries after them.
C23_EntryMetadata ==
    pc = "done" =>
        /\ Len(oFile.entries) = Len(tEntries) + Len(new_binaries)
        /\ \A i \in 1..Len(tEntries) :
              /\ oFile.entries[i].key = tEntries[i].key
              /\ oFile.entries[i].info = tEntries[i].info
        /\ \A i \in 1..Len(new_binaries) :
              /\ oFile.entries[Len(tEntries) + i].key = new_binaries[i].key
              /\ oFile.entries[Len(tEntries) + i].key \notin KeysOf(tEntries)
              /\ oFile.entries[Len(tEntries) + i].info = NewInfo

\* C23 witness: an output with new entries after a stored and several
\* deflated template entries, the body and the manifest rewritten.
C23_Witness ==
    /\ pc = "done" /\ Len(new_binaries) >= 2 /\ Len(tEntries) >= 6
    /\ tEntries[1].info.compress_type = "ZIP_STORED"
    /\ DictGet(oFile.entries, SEC_KEY) # DictGet(tEntries, SEC_KEY)
    /\ DictGet(oFile.entries, HPF_KEY) # DictGet(tEntries, HPF_KEY)

\* The sum and the largest of a sequence of naturals.
RECURSIVE SumOf(_)
SumOf(ns) == IF ns = <<>> THEN 0 ELSE Head(ns) + SumOf(Tail(ns))

RECURSIVE LargestOf(_)
LargestOf(ns) ==
    IF ns = <<>> THEN 0
    ELSE IF Head(ns) > LargestOf(Tail(ns)) THEN Head(ns) ELSE LargestOf(Tail(ns))

\* The displayed widths of the pictures of one paragraph, and their heights.
WidthsOf(para) == [k \in 1..Len(para.pics) |-> para.pics[k].w]

HeightsOf(para) == [k \in 1..Len(para.pics) |-> para.pics[k].h]

\* C24: in every record's block the displayed widths of the pictures of
\* each row of the image cell sum to at most the cell width, and the
\* tallest displayed heights of the rows sum to at most the height of the
\* image cell.
C24_RoundedSizesFit ==
    \A j \in 1..ri :
        /\ \A q \in 1..Len(ImageCell(j)) :
              SumOf(WidthsOf(ImageCell(j)[q])) <= params.cell_w
        /\ SumOf([q \in 1..Len(ImageCell(j)) |-> LargestOf(HeightsOf(ImageCell(j)[q]))])
              <= params.img_cell_h

\* ---- C25 and C26: assets and their references ----

\* The block of record j in the body of the output.
OutBlockOf(j) == OutBody[insert_idx - ri + j]

\* The image references of the synthesized blocks of the output, in
\* document order.
OutRefs ==
    Flat([j \in 1..ri |->
            [k \in 1..Len(PicsOf(OutBlockOf(j))) |->
                PicsOf(OutBlockOf(j))[k].binaryItemIDRef]])

\* The positions of the entries the output has and the template has not.
AddedEntries == { i \in 1..Len(oFile.entries) : oFile.entries[i].key \notin KeysOf(tEntries) }

\* The manifest items the output has beyond the template's.
AddedItems ==
    SubSeq(ItemsOf(oFile.entries), Len(ItemsOf(tEntries)) + 1, Len(ItemsOf(oFile.entries)))

\* The images of record j whose bytes the run could read.
ReadableOf(j) == SelectSeq(LoadedOf(j), LAMBDA img : img.read)

\* C25: in the output of a run every synthesized image reference names one
\* entry added to the archive in the run, declared by one manifest item
\* added in the run; every added entry is named by exactly one reference;
\* an image whose bytes could not be read has no asset and no reference, so
\* each block has as many references as the record has readable images.
C25_ReferentialIntegrity ==
    pc = "done" =>
        /\ \A n \in 1..Len(OutRefs) :
              /\ Cardinality({ i \in AddedEntries :
                                 /\ StartsWithBinDataImage(oFile.entries[i].key)
                                 /\ oFile.entries[i].key[2] = ToString(OutRefs[n]) }) = 1
              /\ Cardinality({ k \in 1..Len(AddedItems) :
                                 /\ AddedItems[k].id = ToString(OutRefs[n])
                                 /\ \E i \in AddedEntries :
                                       oFile.entries[i].key = AddedItems[k].href }) = 1
        /\ \A i \in AddedEntries :
              Cardinality({ n \in 1..Len(OutRefs) :
                              ToString(OutRefs[n]) = oFile.entries[i].key[2] }) = 1
        /\ \A j \in 1..ri :
              /\ Len(PicsOf(OutBlockOf(j))) = Len(ReadableOf(j))
              /\ \A k \in 1..Len(ReadableOf(j)) :
                    \E i \in AddedEntries :
                        /\ oFile.entries[i].key[2] =
                              ToString(PicsOf(OutBlockOf(j))[k].binaryItemIDRef)
                        /\ oFile.entries[i].val.bytes = ReadableOf(j)[k].src
        /\ Cardinality(AddedEntries) = Len(OutRefs)

\* C25 witness: an output with two references, of a record that also held
\* an image whose bytes could not be read.
C25_Witness ==
    /\ pc = "done" /\ Len(OutRefs) >= 2
    /\ \E j \in 1..ri : Len(ReadableOf(j)) < Len(LoadedOf(j)) /\ Len(ReadableOf(j)) > 0

\* C26: whatever embeddings failed, the ids of the assets added so far are
\* the consecutive numbers from the template's maximum plus one on, one
\* asset per id, the counter stands at the next free number, and the
\* output's added entries carry exactly these numbers.
C26_GapFreeAssetIds ==
    /\ ProfileRead =>
          /\ \A i \in 1..Len(NewIds) : NewIds[i] = TemplateMax + i
          /\ \A i, k \in 1..Len(new_binaries) :
                new_binaries[i].key[2] = new_binaries[k].key[2] => i = k
          /\ bin_counter = TemplateMax + Len(NewIds) + 1
    /\ pc = "done" =>
          { IntOf(oFile.entries[i].key[2]) : i \in AddedEntries }
             = (TemplateMax + 1)..(TemplateMax + Cardinality(AddedEntries))

\* C26 witness: a finished run in which reading an image failed before a
\* later image of the same record was embedded, and again before the next
\* record's.
C26_Witness ==
    /\ pc = "done" /\ ri = 2 /\ Len(new_binaries) >= 2
    /\ Len(LoadedOf(1)) = 2 /\ ~LoadedOf(1)[1].read /\ LoadedOf(1)[2].read
    /\ Len(ReadableOf(2)) < Len(LoadedOf(2))

\* C27: _find_expense_ps returns no top-level paragraph twice, whatever
\* matching tables the paragraph holds, so that removing the returned
\* paragraphs one after the other succeeds and leaves no record block.
C27_EachParagraphOnce ==
    /\ pc = "parsed" =>
          LET ps == _find_expense_ps(root, 1)
          IN /\ \A i, k \in 1..Len(ps) : ps[i].eid = ps[k].eid => i = k
             /\ ~RemoveAll(root, ps, 1).raised
             /\ BlockPositions(RemoveAll(root, ps, 1).root) = {}
    /\ err # "not_child"

\* The top-level children of the template body before position i (1-based)
\* and from it on that are not record blocks.
KeptBefore(i) == SelectSeq(SubSeq(TemplateBody, 1, i - 1), LAMBDA c : ~IsBlock(c))

KeptFrom(i) == SelectSeq(SubSeq(TemplateBody, i, Len(TemplateBody)), LAMBDA c : ~IsBlock(c))

\* Where the first record block of the template is, past the end if none.
FirstBlockPosition ==
    IF BlockPositions(TemplateBody) = {} THEN Len(TemplateBody) + 1
    ELSE Minimum(BlockPositions(TemplateBody))

\* C28: the output body is the template's children that are not record
\* blocks, unchanged and in their order, with the synthesized blocks as one
\* run between those that came before the first original block and those
\* that came after it.
C28_OtherChildrenPreserved ==
    pc = "done" =>
        LET before == KeptBefore(FirstBlockPosition)
            after  == KeptFrom(FirstBlockPosition)
        IN /\ Len(OutBody) = Len(before) + Len(data) + Len(after)
           /\ SubSeq(OutBody, 1, Len(before)) = before
           /\ SubSeq(OutBody, Len(before) + Len(data) + 1, Len(OutBody)) = after
           /\ \A j \in 1..Len(data) :
                 /\ IsBlock(OutBody[Len(before) + j])
                 /\ \A i \in 1..Len(TemplateBody) :
                       OutBody[Len(before) + j].eid # TemplateBody[i].eid

\* C28 witness: an output of two records for a template with a child that
\* is no block between its two record blocks.
C28_Witness ==
    /\ pc = "done" /\ Len(data) = 2
    /\ BlockPositions(TemplateBody) = {1, 3}
    /\ Len(KeptFrom(1)) = 1

\* The template is an output of an earlier run.
FedBack == Accepted /\ TemplateBody \in OutputBodies

\* C29: _find_expense_ps recognises every block run has synthesized, once;
\* so a run on a template that is an earlier output ends with an output
\* whose record blocks are exactly the blocks of its own records, none of
\* the earlier ones, in one row starting where the first earlier block was.
C29_OutputFedBack ==
    /\ \A j \in 1..ri : _find_expense_ps(<<BlockOf(j)>>, 1) = <<BlockOf(j)>>
    /\ FedBack /\ pc = "parsed" =>
          _find_expense_ps(root, 1) = SelectSeq(root, IsBlock)
    /\ FedBack /\ Ended =>
          /\ pc = "done"
          /\ BlockPositions(OutBody) =
                FirstBlockPosition..(FirstBlockPosition + Len(data) - 1)
          /\ \A i \in BlockPositions(OutBody) :
                /\ \A k \in 1..Len(TemplateBody) : OutBody[i].eid # TemplateBody[k].eid
                /\ TableOf(OutBody[i]).trs[1].paras[1].text
                      = Title(data[i - FirstBlockPosition + 1])

\* C29 witness: a run of one record on an earlier output of two blocks that
\* followed another child has ended.
C29_Witness ==
    /\ FedBack /\ pc = "done" /\ Len(data) = 1
    /\ BlockPositions(TemplateBody) = {2, 3}
    /\ BlockPositions(OutBody) = {2}

\* C30: for a template body without a record block run keeps the default
\* profile, removes nothing, and puts the blocks of the records after all
\* the children the body had, in record order; the output body is the
\* template body followed by the m blocks.
C30_NoBlockAppendsAtEnd ==
    Accepted /\ BlockPositions(TemplateBody) = {} =>
        /\ ProfileRead =>
              /\ params = DefaultParams
              /\ insert_idx = Len(TemplateBody) + ri
              /\ Len(root) = Len(TemplateBody) + ri
              /\ SubSeq(root, 1, Len(TemplateBody)) = TemplateBody
              /\ \A j \in 1..ri :
                    /\ IsBlock(root[Len(TemplateBody) + j])
                    /\ TableOf(root[Len(TemplateBody) + j]).trs[1].paras[1].text
                          = Title(data[j])
        /\ pc = "done" => OutBody = root /\ ri = Len(data)

\* C30 witness: two records were added to a body of several children,
\* none of them a record block.
C30_Witness ==
    /\ pc = "done" /\ BlockPositions(TemplateBody) = {}
    /\ Len(TemplateBody) >= 2 /\ Len(data) = 2

=============================================================================
